---- MODULE Spec2Model ----
(***************************************************************************)
(* A model of template/build_deck.py: the static build step that rewrites  *)
(* the navigation footer and the AUTO-SCRIPTS block of every slide file    *)
(* named by deck.json and then writes index.html and print.html.           *)
(*                                                                         *)
(* Text is modelled at the granularity the program's regular expressions   *)
(* see it.  A string (a src, an href, a manifest value) is a sequence of   *)
(* lexemes: "/" , ".", "..", "?", "#", a scheme such as "https:", a single *)
(* blank " ", or a name.  An HTML file is a sequence of tokens: one token  *)
(* per maximal run of whitespace (holding the run's characters), per tag   *)
(* and per run of author text.                                             *)
(***************************************************************************)
EXTENDS Integers, Sequences, FiniteSets, TLC

\* ------------------------------------------------------------------------
\* Strings as lexeme sequences
\* ------------------------------------------------------------------------

\* str.lower() on one lexeme (also the case folding of re.IGNORECASE)
LowerLex(x) ==
  CASE x = "KaTeX" -> "katex"
    [] x = "TeX" -> "tex"
    [] x = "MathJax" -> "mathjax"
    [] x = "MJ" -> "mj"
    [] x = "OFF" -> "off"
    [] x = "X.JS" -> "x.js"
    [] OTHER -> x

\* str.lower()
Lower(s) == [j \in 1..Len(s) |-> LowerLex(s[j])]

RECURSIVE LStrip(_)
LStrip(s) == IF s # <<>> /\ Head(s) = " " THEN LStrip(Tail(s)) ELSE s

RECURSIVE RStrip(_)
RStrip(s) ==
  IF s # <<>> /\ s[Len(s)] = " " THEN RStrip(SubSeq(s, 1, Len(s) - 1)) ELSE s

\* str.strip()
Strip(s) == RStrip(LStrip(s))

\* s.startswith(ABS_PREFIXES), ABS_PREFIXES =
\*   ("http://", "https://", "data:", "/", "#", "mailto:", "tel:")
StartsWithAbs(s) ==
  /\ s # <<>>
  /\ \/ s[1] \in {"data:", "/", "#", "mailto:", "tel:"}
     \/ /\ s[1] \in {"http:", "https:"}
        /\ Len(s) >= 3
        /\ s[2] = "/"
        /\ s[3] = "/"

\* s.startswith("./") or s.startswith("../")
StartsWithDot(s) == Len(s) >= 2 /\ s[1] \in {".", ".."} /\ s[2] = "/"

\* "/" in s
HasSlash(s) == \E j \in 1..Len(s) : s[j] = "/"

\* ------------------------------------------------------------------------
\* Paths: a path is a sequence of segments, a segment a lexeme sequence
\* ------------------------------------------------------------------------

\* ROOT = Path(__file__).resolve().parent, an absolute normalised directory
ROOT == << <<"deck">> >>

RECURSIVE SplitFrom(_, _, _)
SplitFrom(s, j, cur) ==
  IF j > Len(s) THEN <<cur>>
  ELSE IF s[j] = "/" THEN <<cur>> \o SplitFrom(s, j + 1, <<>>)
  ELSE SplitFrom(s, j + 1, Append(cur, s[j]))

\* s.split("/")
Split(s) == SplitFrom(s, 1, <<>>)

RECURSIVE JoinSegs(_)
\* "/".join(segs)
JoinSegs(segs) ==
  IF segs = <<>> THEN <<>>
  ELSE IF Len(segs) = 1 THEN segs[1]
  ELSE segs[1] \o <<"/">> \o JoinSegs(Tail(segs))

RECURSIVE NormFrom(_, _)
\* posixpath.normpath on the segments of an absolute path: empty and "."
\* segments vanish, ".." removes the segment before it (and stays at "/")
NormFrom(acc, segs) ==
  IF segs = <<>> THEN acc
  ELSE LET g == Head(segs) IN
       IF g = <<>> \/ g = <<".">> THEN NormFrom(acc, Tail(segs))
       ELSE IF g = <<"..">>
            THEN NormFrom(IF acc = <<>> THEN acc
                          ELSE SubSeq(acc, 1, Len(acc) - 1), Tail(segs))
       ELSE NormFrom(Append(acc, g), Tail(segs))

Norm(segs) == NormFrom(<<>>, segs)

\* ROOT / s  (s is never absolute where the program joins it)
UnderRoot(s) == ROOT \o Split(s)

\* Path.parent, then the abspath that posixpath.relpath applies
ParentDir(p) == Norm(SubSeq(p, 1, Len(p) - 1))

RECURSIVE CommonLen(_, _)
CommonLen(a, b) ==
  IF a = <<>> \/ b = <<>> \/ Head(a) # Head(b) THEN 0
  ELSE 1 + CommonLen(Tail(a), Tail(b))

\* posixpath.relpath(path, start) on normalised absolute segment lists
RelPath(path, start) ==
  LET c    == CommonLen(path, start)
      ups  == [j \in 1..(Len(start) - c) |-> <<"..">>]
      rest == SubSeq(path, c + 1, Len(path))
      segs == ups \o rest
  IN IF segs = <<>> THEN <<".">> ELSE JoinSegs(segs)

\* a rel_href that measures from the slide file instead of its directory
rel_href_from_file(from_path, to_path) == RelPath(Norm(to_path), Norm(from_path))

\* rel_href(from_path, to_path)
rel_href(from_path, to_path) == RelPath(Norm(to_path), ParentDir(from_path))

\* resolve_script_src(slide_path, src)
resolve_script_src(slide_path, src) ==
  LET s == Strip(src) IN
  IF s = <<>> THEN s
  ELSE IF StartsWithAbs(s) \/ StartsWithDot(s) THEN s
  ELSE IF HasSlash(s) THEN rel_href(slide_path, UnderRoot(s))
  ELSE <<".", "/">> \o s

\* ------------------------------------------------------------------------
\* HTML as token sequences
\* ------------------------------------------------------------------------

\* every token has the same four fields: kind, src/href, attributes, counter
Tok(k) == [k |-> k, src |-> <<>>, a |-> <<>>, n |-> <<0, 0>>]

\* a run of whitespace characters
WS(c) == [Tok("ws") EXCEPT !.a = <<c>>]
NL == WS("\n")
\* a run of author text holding no tag, marker or whitespace
Txt(x) == [Tok("txt") EXCEPT !.a = <<x>>]
\* <script src="..." attrs>
ScriptOpen(src, attrs) == [Tok("script") EXCEPT !.src = src, !.a = attrs]
\* <script> without a src attribute (an inline script)
InlineScriptOpen == [Tok("script") EXCEPT !.a = <<"inline">>]
\* <script src='...'>: the src is quoted with apostrophes
ScriptOpenApos(src) == [Tok("script") EXCEPT !.src = src, !.a = <<"'">>]
ScriptClose == Tok("/script")
\* <footer class="slide-nav" data-auto-nav>
FooterOpen == [Tok("footer") EXCEPT !.a = <<"slide-nav", "data-auto-nav">>]
FooterClose == Tok("/footer")
\* <main class="slide-body">
MainOpen == [Tok("main") EXCEPT !.a = <<"slide-body">>]
MainClose == Tok("/main")
BodyClose == Tok("/body")
\* <img src="...">
Img(src) == [Tok("img") EXCEPT !.src = src]

\* AUTO_SCRIPTS_BEGIN, AUTO_SCRIPTS_END
AUTO_SCRIPTS_BEGIN == Tok("<!-- AUTO-SCRIPTS:BEGIN -->")
AUTO_SCRIPTS_END == Tok("<!-- AUTO-SCRIPTS:END -->")

IsWs(t) == t.k = "ws"

RECURSIVE Merge(_)
\* string concatenation: whitespace that meets whitespace is one run
Merge(html) ==
  IF Len(html) <= 1 THEN html
  ELSE IF IsWs(html[1]) /\ IsWs(html[2])
       THEN Merge(<<WS(html[1].a[1] \o html[2].a[1])>> \o Tail(Tail(html)))
  ELSE <<html[1]>> \o Merge(Tail(html))

RECURSIVE SkipWs(_, _)
\* the first position at or after j that holds no whitespace (\s* is greedy)
SkipWs(html, j) ==
  IF j <= Len(html) /\ IsWs(html[j]) THEN SkipWs(html, j + 1) ELSE j

\* ------------------------------------------------------------------------
\* Script-tag removal
\* ------------------------------------------------------------------------

\* the src="..." part of RE_DECKJS
DeckJsSrc == <<"..", "/", "assets", "/", "deck.js">>

MathSetupFiles == {"math-katex-setup.js", "math-mathjax-setup.js"}

\* the src="..." part of RE_ANY_MATH_LOADER: any prefix, one of the two
\* setup files, then the end of the value or a query string
IsMathLoaderSrc(src) ==
  \E p \in 1..Len(src) :
     /\ LowerLex(src[p]) \in MathSetupFiles
     /\ (p = Len(src) \/ src[p + 1] = "?")

\* a matcher is what the src of a <script> is compared with
DeckJsMatcher == [kind |-> "deckjs", cand |-> <<>>]
MathMatcher == [kind |-> "math", cand |-> <<>>]
CandMatcher(cand) == [kind |-> "cand", cand |-> cand]

SrcMatches(m, src) ==
  CASE m.kind = "deckjs" -> Lower(src) = DeckJsSrc
    [] m.kind = "math" -> IsMathLoaderSrc(src)
    [] OTHER -> src # <<>> /\ Lower(src) = Lower(m.cand)

\* <script[^>]*\bsrc="M"[^>]*> : an opening script tag whose src is written
\* in double quotes and matches
IsScriptOpenFor(t, m) ==
  /\ t.k = "script"
  /\ t.a # <<"inline">>
  /\ t.a # <<"'">>
  /\ SrcMatches(m, t.src)

RECURSIVE SubScriptTags(_, _, _)
\* re.sub(r'\s*<script[^>]*\bsrc="M"[^>]*>\s*</script>\s*', "\n", html)
SubScriptTags(html, j, m) ==
  IF j > Len(html) THEN <<>>
  ELSE LET o == SkipWs(html, j)
           c == SkipWs(html, o + 1)
       IN IF /\ o <= Len(html)
             /\ IsScriptOpenFor(html[o], m)
             /\ c <= Len(html)
             /\ html[c].k = "/script"
          THEN <<NL>> \o SubScriptTags(html, SkipWs(html, c + 1), m)
          ELSE <<html[j]>> \o SubScriptTags(html, j + 1, m)

\* html = RE_DECKJS.sub("\n", html)
RemoveDeckJs(html) == SubScriptTags(html, 1, DeckJsMatcher)

\* html = RE_ANY_MATH_LOADER.sub("\n", html)
RemoveMathLoaders(html) == SubScriptTags(html, 1, MathMatcher)

\* remove_script_tag_by_src(html, slide_path, raw_src).  The candidates are
\* a Python set of strings, whose iteration order is not fixed by the
\* language: rawFirst is the order this call happens to get.
remove_script_tag_by_src(html, slide_path, raw_src, rawFirst) ==
  LET s == Strip(raw_src) IN
  IF s = <<>> THEN html
  ELSE IF StartsWithAbs(s) \/ StartsWithDot(s)
       THEN SubScriptTags(html, 1, CandMatcher(s))
  ELSE LET r == resolve_script_src(slide_path, s)
           one == IF rawFirst THEN s ELSE r
           two == IF rawFirst THEN r ELSE s
       IN IF r = s THEN SubScriptTags(html, 1, CandMatcher(s))
          ELSE SubScriptTags(SubScriptTags(html, 1, CandMatcher(one)),
                             1, CandMatcher(two))

RECURSIVE RemoveDeclared(_, _, _, _, _)
\* for sp in slide.scripts: html = remove_script_tag_by_src(...)
RemoveDeclared(html, slide_path, scripts, j, order) ==
  IF j > Len(scripts) THEN html
  ELSE RemoveDeclared(
         remove_script_tag_by_src(html, slide_path, scripts[j].src, order[j]),
         slide_path, scripts, j + 1, order)

\* ------------------------------------------------------------------------
\* Math engine selection
\* ------------------------------------------------------------------------

\* an Optional value is a sequence of length 0 (None) or 1
None == <<>>
Some(v) == <<v>>
\* (x or "")
OrEmpty(opt) == IF opt = None THEN <<>> ELSE opt[1]

\* the result of a call that may raise SystemExit
\* an error message: its fixed text and the value or file it names
Msg(text, arg) == [text |-> text, arg |-> arg]
NoMsg == Msg("", <<>>)
Returns(v) == [exit |-> FALSE, val |-> v, msg |-> NoMsg]
Raises(text, arg) == [exit |-> TRUE, val |-> <<>>, msg |-> Msg(text, arg)]

\* a choice in which the deck default, when it names an engine, wins over
\* the slide's own value
choose_slide_math_engine_deck_first(deck_math_cfg, slide_math) ==
  LET sm == Lower(Strip(OrEmpty(slide_math)))
      deck_engine == Lower(Strip(OrEmpty(deck_math_cfg.engine)))
  IN IF deck_engine \in {<<"katex">>, <<"tex">>} THEN Returns(<<"katex">>)
     ELSE IF deck_engine \in {<<"mathjax">>, <<"mj">>}
          THEN Returns(<<"mathjax">>)
     ELSE IF sm \in {<<>>, <<"none">>, <<"off">>, <<"false">>, <<"0">>}
          THEN Returns(<<>>)
     ELSE IF sm \in {<<"katex">>, <<"tex">>} THEN Returns(<<"katex">>)
     ELSE IF sm \in {<<"mathjax">>, <<"mj">>} THEN Returns(<<"mathjax">>)
     ELSE Raises("Unknown slide math engine", slide_math[1])

\* choose_slide_math_engine(deck_math_cfg, slide_math); engines are the
\* one-lexeme strings <<"katex">>, <<"mathjax">> or the empty string
choose_slide_math_engine(deck_math_cfg, slide_math) ==
  LET sm == Lower(Strip(OrEmpty(slide_math)))
      deck_engine == Lower(Strip(OrEmpty(deck_math_cfg.engine)))
  IN IF sm # <<>>
     THEN IF sm \in {<<"none">>, <<"off">>, <<"false">>, <<"0">>}
          THEN Returns(<<>>)
          ELSE IF sm \in {<<"katex">>, <<"tex">>} THEN Returns(<<"katex">>)
          ELSE IF sm \in {<<"mathjax">>, <<"mj">>} THEN Returns(<<"mathjax">>)
          ELSE Raises("Unknown slide math engine", slide_math[1])
     ELSE IF deck_engine \in {<<"katex">>, <<"tex">>} THEN Returns(<<"katex">>)
     ELSE IF deck_engine \in {<<"mathjax">>, <<"mj">>}
          THEN Returns(<<"mathjax">>)
     ELSE Returns(<<>>)

\* a choice for the print page that looks at the deck default only
choose_print_math_engine_deck_only(deck_math_cfg, slides) ==
  LET deck_engine == Strip(Lower(OrEmpty(deck_math_cfg.engine)))
  IN IF deck_engine \in {<<"mathjax">>, <<"mj">>} THEN <<"mathjax">>
     ELSE IF deck_engine \in {<<"katex">>, <<"tex">>} THEN <<"katex">>
     ELSE <<>>

\* choose_print_math_engine(deck_math_cfg, slides)
choose_print_math_engine(deck_math_cfg, slides) ==
  LET deck_engine == Strip(Lower(OrEmpty(deck_math_cfg.engine)))
      any_mathjax ==
        \E j \in 1..Len(slides) :
           Strip(Lower(OrEmpty(slides[j].math))) \in {<<"mathjax">>, <<"mj">>}
  IN IF any_mathjax \/ deck_engine \in {<<"mathjax">>, <<"mj">>}
     THEN <<"mathjax">>
     ELSE IF deck_engine \in {<<"katex">>, <<"tex">>} THEN <<"katex">>
     ELSE <<>>

\* ------------------------------------------------------------------------
\* The AUTO-SCRIPTS block
\* ------------------------------------------------------------------------

\* script_tag(spec, slide_path): <script src=".." type=".." defer async>
\* followed by </script>
script_tag(spec, slide_path) ==
  LET src == resolve_script_src(slide_path, spec.src)
      attrs == (IF spec.type # "" THEN <<"type=\"" \o spec.type \o "\"">>
                ELSE <<>>)
               \o (IF spec.defer THEN <<"defer">> ELSE <<>>)
               \o (IF spec.async_ THEN <<"async">> ELSE <<>>)
  IN <<ScriptOpen(src, attrs), ScriptClose>>

\* the math loader tag of build_auto_scripts_block
MathLoaderTag(slide_path, engine) ==
  <<ScriptOpen(rel_href(slide_path,
                        ROOT \o << <<"assets">>,
                                   <<"math-" \o engine[1] \o "-setup.js">> >>),
               <<>>),
    ScriptClose>>

RECURSIVE JoinTags(_)
\* "\n    ".join(tags)
JoinTags(tags) ==
  IF tags = <<>> THEN <<>>
  ELSE IF Len(tags) = 1 THEN tags[1]
  ELSE tags[1] \o <<WS("\n    ")>> \o JoinTags(Tail(tags))

\* build_auto_scripts_block(slide_path, deck_math_cfg, slide), given the
\* engine that choose_slide_math_engine returned
AutoScriptsBlock(slide_path, engine, slide) ==
  LET tags == (IF engine = <<>> THEN <<>>
               ELSE <<MathLoaderTag(slide_path, engine)>>)
              \o [j \in 1..Len(slide.scripts) |->
                    script_tag(slide.scripts[j], slide_path)]
  IN Merge(<<AUTO_SCRIPTS_BEGIN, WS("\n    ")>> \o JoinTags(tags)
           \o <<WS("\n    "), AUTO_SCRIPTS_END>>)

\* build_auto_scripts_block, raising when the slide's engine is unknown
build_auto_scripts_block(slide_path, deck_math_cfg, slide) ==
  LET engine == choose_slide_math_engine(deck_math_cfg, slide.math)
  IN IF engine.exit THEN engine
     ELSE Returns(AutoScriptsBlock(slide_path, engine.val, slide))

\* positions of the first match of RE_AUTO_SCRIPTS, <<0, 0>> when none
AutoScriptsSpan(html) ==
  LET begins == {b \in 1..Len(html) :
                   /\ html[b] = AUTO_SCRIPTS_BEGIN
                   /\ \E e \in (b + 1)..Len(html) : html[e] = AUTO_SCRIPTS_END}
  IN IF begins = {} THEN <<0, 0>>
     ELSE LET b == CHOOSE x \in begins : \A y \in begins : x <= y
              e == CHOOSE x \in (b + 1)..Len(html) :
                     /\ html[x] = AUTO_SCRIPTS_END
                     /\ \A y \in (b + 1)..(x - 1) : html[y] # AUTO_SCRIPTS_END
          IN <<b, e>>

\* position of the first </body>, 0 when none
FirstBodyClose(html) ==
  LET ps == {p \in 1..Len(html) : html[p] = BodyClose}
  IN IF ps = {} THEN 0 ELSE CHOOSE p \in ps : \A q \in ps : p <= q

\* upsert_auto_scripts(html, block)
upsert_auto_scripts(html, block) ==
  LET span == AutoScriptsSpan(html)
      bc == FirstBodyClose(html)
  IN IF span # <<0, 0>>
     THEN SubSeq(html, 1, span[1] - 1) \o block
          \o SubSeq(html, span[2] + 1, Len(html))
     ELSE IF bc # 0
     THEN Merge(SubSeq(html, 1, bc - 1) \o <<WS("\n    ")>> \o block
                \o <<WS("\n  ")>> \o SubSeq(html, bc, Len(html)))
     ELSE Merge(html \o <<NL>> \o block \o <<NL>>)

\* ------------------------------------------------------------------------
\* The navigation footer
\* ------------------------------------------------------------------------

IsFooterOpen(t) ==
  /\ t.k = "footer"
  /\ \E p \in 1..Len(t.a) :
        /\ t.a[p] = "slide-nav"
        /\ \E q \in (p + 1)..Len(t.a) : t.a[q] = "data-auto-nav"

\* a greedy footer pattern: the last </footer> after j, 0 when none
FooterCloseLast(html, j) ==
  LET ps == {p \in (j + 1)..Len(html) : html[p] = FooterClose}
  IN IF ps = {} THEN 0 ELSE CHOOSE p \in ps : \A q \in ps : p >= q

\* position of the first </footer> after j, 0 when none
FooterCloseAfter(html, j) ==
  LET ps == {p \in (j + 1)..Len(html) : html[p] = FooterClose}
  IN IF ps = {} THEN 0 ELSE CHOOSE p \in ps : \A q \in ps : p <= q

\* RE_FOOTER.search(html)
HasFooter(html) ==
  \E j \in 1..Len(html) :
     IsFooterOpen(html[j]) /\ FooterCloseAfter(html, j) # 0

\* <a class="cls" href="href">, with aria-disabled="true" when disabled
NavLink(cls, href, disabled) ==
  [Tok("a") EXCEPT !.src = href,
                   !.a = IF disabled THEN <<cls, "aria-disabled">> ELSE <<cls>>]

\* <span class="nav-counter">idx/total</span>
NavCounter(idx, total) == [Tok("span") EXCEPT !.n = <<idx, total>>]

\* nav_html of update_slide_file; prev_path and next_path are Optional
NavHtml(slide_path, prev_path, next_path, idx, total) ==
  LET prev_href == IF prev_path # None
                   THEN rel_href(slide_path, prev_path[1]) ELSE <<"#">>
      next_href == IF next_path # None
                   THEN rel_href(slide_path, next_path[1]) ELSE <<"#">>
      index_href == rel_href(slide_path, ROOT \o << <<"index.html">> >>)
  IN <<WS("\n      "), NavLink("nav-prev", prev_href, prev_path = None),
       WS("\n      "), NavLink("nav-index", index_href, FALSE),
       WS("\n      "), NavLink("nav-next", next_href, next_path = None),
       WS("\n      "), NavCounter(idx, total),
       WS("\n    ")>>

RECURSIVE SubFooters(_, _, _)
\* RE_FOOTER.sub(lambda m: open + nav_html + close, html)
SubFooters(html, j, nav_html) ==
  IF j > Len(html) THEN <<>>
  ELSE LET c == FooterCloseAfter(html, j) IN
       IF IsFooterOpen(html[j]) /\ c # 0
       THEN <<html[j]>> \o nav_html \o <<html[c]>>
            \o SubFooters(html, c + 1, nav_html)
       ELSE <<html[j]>> \o SubFooters(html, j + 1, nav_html)

\* ------------------------------------------------------------------------
\* update_slide_file
\* ------------------------------------------------------------------------

\* the text update_slide_file computes from the text it read; exit is TRUE
\* when it raises before writing.  order[j] is the iteration order of the
\* candidate set of the j-th declared script.
update_slide_file(html0, slide_path, prev_path, next_path, idx, total, deck_math_cfg, slide, order) ==
  LET html1 == RemoveDeckJs(html0)
      html2 == RemoveMathLoaders(html1)
      html3 == RemoveDeclared(html2, slide_path, slide.scripts, 1, order)
      nav_html == NavHtml(slide_path, prev_path, next_path, idx, total)
      html4 == SubFooters(html3, 1, nav_html)
      block == build_auto_scripts_block(slide_path, deck_math_cfg, slide)
  IN IF ~HasFooter(html3) THEN Raises("missing footer", slide_path)
     ELSE IF block.exit THEN block
     ELSE Returns(upsert_auto_scripts(html4, block.val))

\* ------------------------------------------------------------------------
\* deck.json and read_manifest
\* ------------------------------------------------------------------------

\* ScriptSpec(src, type, defer, async_); type "" is None
ScriptSpec(src, type, defer, async_) ==
  [src |-> src, type |-> type, defer |-> defer, async_ |-> async_]

\* one entry of a "scripts" list in deck.json: a string, a dict with a
\* string "src", or anything else
StrEntry(src) == [shape |-> "str", src |-> src, type |-> "",
                  defer |-> FALSE, async_ |-> FALSE]
DictEntry(src, type, defer, async_) ==
  [shape |-> "dict", src |-> src, type |-> type,
   defer |-> defer, async_ |-> async_]
BadEntry == [shape |-> "bad", src |-> <<>>, type |-> "",
             defer |-> FALSE, async_ |-> FALSE]

\* normalize_scripts(item)
normalize_scripts(item) ==
  LET raw == IF item.scripts # None THEN item.scripts[1]
             ELSE IF OrEmpty(item.script) # <<>>
                  THEN <<StrEntry(item.script[1])>>
             ELSE <<>>
  IN IF \E j \in 1..Len(raw) : raw[j].shape = "bad"
     THEN Raises("Invalid script entry in deck.json", <<>>)
     ELSE Returns([j \in 1..Len(raw) |->
                     ScriptSpec(raw[j].src, raw[j].type,
                                raw[j].defer, raw[j].async_)])

\* Path(name).stem for the file names the model uses
StemLex(x) ==
  CASE x = "s1.html" -> "s1"
    [] x = "s2.html" -> "s2"
    [] x = "s3.html" -> "s3"
    [] x = "s4.html" -> "s4"
    [] x = "gone.html" -> "gone"
    [] x = "slide.html" -> "slide"
    [] OTHER -> x

\* Path(item["file"]).stem
Stem(file) ==
  LET segs == Split(file)
      last == segs[Len(segs)]
  IN IF last = <<>> THEN "" ELSE StemLex(last[Len(last)])

\* Slide(file, title, math, scripts)
Slide(item, scripts) ==
  [file |-> item.file,
   title |-> IF item.title # "" THEN item.title ELSE Stem(item.file),
   math |-> item.math,
   scripts |-> scripts]

\* read_manifest(): the slides, or the first SystemExit
read_manifest(dk) ==
  LET n == Len(dk.slides)
      bad == {j \in 1..n : normalize_scripts(dk.slides[j]).exit}
  IN IF bad # {}
     THEN normalize_scripts(
            dk.slides[CHOOSE j \in bad : \A l \in bad : j <= l])
     ELSE IF n = 0 THEN Raises("deck.json has no slides.", <<>>)
     ELSE Returns([j \in 1..n |->
                     Slide(dk.slides[j], normalize_scripts(dk.slides[j]).val)])

\* deck.get("title", "Deck"), deck.get("theme", "assets/theme.css")
DeckTitle(dk) == IF dk.title = None THEN "Deck" ELSE dk.title[1]
DeckTheme(dk) == IF dk.theme = None THEN "assets/theme.css" ELSE dk.theme[1]

\* ------------------------------------------------------------------------
\* index.html and print.html
\* ------------------------------------------------------------------------

\* the page build_index writes: the shell, then one list entry per slide
build_index(deck_title, theme_href, slides) ==
  <<[Tok("index-shell") EXCEPT !.a = <<deck_title, theme_href>>]>>
  \o [j \in 1..Len(slides) |->
        [Tok("li") EXCEPT !.src = slides[j].file,
                          !.a = <<slides[j].title>>,
                          !.n = <<j, 0>>]]

\* positions of RE_MAIN.search(src): the first <main class="slide-body">
\* and the first </main> after it, <<0, 0>> when there is no match
MainSpan(src) ==
  LET opens == {o \in 1..Len(src) :
                  /\ src[o].k = "main"
                  /\ \E p \in 1..Len(src[o].a) : src[o].a[p] = "slide-body"
                  /\ \E c \in (o + 1)..Len(src) : src[c] = MainClose}
  IN IF opens = {} THEN <<0, 0>>
     ELSE LET o == CHOOSE x \in opens : \A y \in opens : x <= y
              c == CHOOSE x \in (o + 1)..Len(src) :
                     /\ src[x] = MainClose
                     /\ \A y \in (o + 1)..(x - 1) : src[y] # MainClose
          IN <<o, c>>

\* rewrite_img_srcs(body_html, slide_path)
rewrite_img_srcs(body_html, slide_path) ==
  [j \in 1..Len(body_html) |->
     LET t == body_html[j]
         s == Strip(t.src)
     IN IF t.k # "img" \/ t.src = <<>> THEN t
        ELSE IF s = <<>> \/ StartsWithAbs(s) THEN t
        ELSE [t EXCEPT !.src =
                <<"/">> \o JoinSegs(Norm(ParentDir(slide_path) \o Split(s)))]]

RECURSIVE PrintSections(_, _, _)
\* the sections list of build_print, from slide j on; disk maps a path to
\* an Optional text
PrintSections(slides, j, disk) ==
  IF j > Len(slides) THEN <<>>
  ELSE LET slide_path == UnderRoot(slides[j].file)
           src == disk[Norm(slide_path)][1]
           m == MainSpan(src)
           body == rewrite_img_srcs(SubSeq(src, m[1] + 1, m[2] - 1), slide_path)
       IN <<[Tok("section") EXCEPT !.a = <<slides[j].title>>, !.n = <<j, 0>>]>>
          \o body \o <<Tok("/section")>> \o PrintSections(slides, j + 1, disk)

\* build_print(deck_title, theme_href, deck_math_cfg, slides)
build_print(deck_title, theme_href, deck_math_cfg, slides, disk) ==
  LET nomain == {j \in 1..Len(slides) :
                   MainSpan(disk[Norm(UnderRoot(slides[j].file))][1]) = <<0, 0>>}
      engine == choose_print_math_engine(deck_math_cfg, slides)
      math_script ==
        IF engine = <<>> THEN <<>>
        ELSE <<ScriptOpen(<<"assets", "/", "math-" \o engine[1] \o "-setup.js">>,
                          <<"defer">>),
               ScriptClose>>
  IN IF nomain # {}
     THEN Raises("missing main",
                 slides[CHOOSE j \in nomain : \A l \in nomain : j <= l].file)
     ELSE Returns(
            <<[Tok("print-shell") EXCEPT !.a = <<deck_title, theme_href>>]>>
            \o PrintSections(slides, 1, disk) \o math_script)

\* ------------------------------------------------------------------------
\* State
\* ------------------------------------------------------------------------

VARIABLES
  deck,       \* the content of deck.json
  disk,       \* slide path -> Optional text: the slide files under ROOT
  indexHtml,  \* Optional text of ROOT/index.html
  printHtml,  \* Optional text of ROOT/print.html
  pc,         \* where main() is: start, loop, index, print, done, failed
  slides,     \* main's slides list, once read_manifest returned
  i,          \* main's loop index
  err,        \* the SystemExit message of a failed run
  run,        \* how many times main() has been started
  orig,       \* the slide files before the first run
  pre,        \* the files as they were when the current run started
  prevOut,    \* Optional: the files as the previous run left them
  permDisk,   \* the slide files of a build that rewrites in any order
  permOrder,  \* the positions that build has rewritten, in order
  call,       \* the arguments of a call of resolve_script_src
  ret         \* Optional: what that call returned

vars == <<deck, disk, indexHtml, printHtml, pc, slides, i, err, run, orig,
          pre, prevOut, permDisk, permOrder, call, ret>>

buildVars == <<deck, disk, indexHtml, printHtml, pc, slides, i, err, run,
               orig, pre, prevOut>>

otherVars == <<permDisk, permOrder, call, ret>>

Files == [disk |-> disk, index |-> indexHtml, print |-> printHtml]

\* how many times main() is run in a row
MaxRuns == 2

\* slide_path = ROOT / s.file, as the file system identifies it
SlidePath(file) == Norm(UnderRoot(file))

\* slide_path.exists()
Exists(d, path) == path \in DOMAIN d /\ d[path] # None

\* every way the candidate sets of a slide's scripts can be iterated
Orders(slide) == [1..Len(slide.scripts) -> BOOLEAN]

\* ------------------------------------------------------------------------
\* main()
\* ------------------------------------------------------------------------

\* a main that writes index.html before it visits the slides
MainOrderIndexFirst == <<"index", "loop", "print">>

\* the order of main's three stages after read_manifest
MainOrder == <<"loop", "index", "print">>

StageAfter(stage) ==
  LET p == CHOOSE q \in 1..Len(MainOrder) : MainOrder[q] = stage
  IN IF p < Len(MainOrder) THEN MainOrder[p + 1] ELSE "done"

Fail(msg) ==
  /\ pc' = "failed"
  /\ err' = msg

\* deck_title, theme, deck_math_cfg, slides = read_manifest()
ReadManifest ==
  /\ pc = "start"
  /\ pre' = Files
  /\ LET r == read_manifest(deck) IN
     IF r.exit
     THEN /\ Fail(r.msg)
          /\ UNCHANGED <<slides, i>>
     ELSE /\ slides' = r.val
          /\ i' = 1
          /\ pc' = MainOrder[1]
          /\ err' = NoMsg
  /\ UNCHANGED <<deck, disk, indexHtml, printHtml, run, orig, prevOut>>
  /\ UNCHANGED otherVars

\* a prev_path that is off by one: the slide itself
PrevPathSelf(sl, j) == IF j > 1 THEN Some(UnderRoot(sl[j].file)) ELSE None

\* prev_path, next_path of position j
PrevPath(sl, j) == IF j > 1 THEN Some(UnderRoot(sl[j - 1].file)) ELSE None
NextPath(sl, j) == IF j < Len(sl) THEN Some(UnderRoot(sl[j + 1].file)) ELSE None

\* a loop that rewrites the file of the position before j
TargetPathBefore(sl, j) == SlidePath(sl[IF j > 1 THEN j - 1 ELSE j].file)

\* the file position j reads and writes
TargetPath(sl, j) == SlidePath(sl[j].file)

\* the update_slide_file call of position j on the files d
UpdateAt(d, sl, j, cfg, order) ==
  update_slide_file(d[TargetPath(sl, j)][1], UnderRoot(sl[j].file),
                    PrevPath(sl, j), NextPath(sl, j), j, Len(sl),
                    cfg, sl[j], order)

\* slide_path.write_text(html)
WriteText(d, path, html) == [d EXCEPT ![path] = Some(html)]

\* one iteration of "for i, s in enumerate(slides, start=1)"
LoopStep ==
  /\ pc = "loop"
  /\ IF ~Exists(disk, TargetPath(slides, i))
     THEN /\ Fail(Msg("Missing slide file", slides[i].file))
          /\ UNCHANGED <<disk, i>>
     ELSE \E order \in Orders(slides[i]) :
            LET r == UpdateAt(disk, slides, i, deck.math, order) IN
            IF r.exit
            THEN /\ Fail(r.msg)
                 /\ UNCHANGED <<disk, i>>
            ELSE /\ disk' = WriteText(disk, TargetPath(slides, i), r.val)
                 /\ i' = i + 1
                 /\ pc' = IF i = Len(slides) THEN StageAfter("loop") ELSE "loop"
                 /\ UNCHANGED err
  /\ UNCHANGED <<deck, indexHtml, printHtml, slides, run, orig, pre, prevOut>>
  /\ UNCHANGED otherVars

\* build_index(deck_title, theme, slides)
BuildIndex ==
  /\ pc = "index"
  /\ indexHtml' = Some(build_index(DeckTitle(deck), DeckTheme(deck), slides))
  /\ pc' = StageAfter("index")
  /\ UNCHANGED <<deck, disk, printHtml, slides, i, err, run, orig, pre,
                 prevOut>>
  /\ UNCHANGED otherVars

\* build_print(deck_title, theme, deck_math_cfg, slides), then the OK line
BuildPrint ==
  /\ pc = "print"
  /\ LET r == build_print(DeckTitle(deck), DeckTheme(deck), deck.math,
                          slides, disk) IN
     IF r.exit
     THEN /\ Fail(r.msg)
          /\ UNCHANGED printHtml
     ELSE /\ printHtml' = Some(r.val)
          /\ pc' = StageAfter("print")
          /\ UNCHANGED err
  /\ UNCHANGED <<deck, disk, indexHtml, slides, i, run, orig, pre, prevOut>>
  /\ UNCHANGED otherVars

\* python build_deck.py once more, deck.json unchanged
RunAgain ==
  /\ pc = "done"
  /\ run < MaxRuns
  /\ run' = run + 1
  /\ prevOut' = Some(Files)
  /\ pc' = "start"
  /\ UNCHANGED <<deck, disk, indexHtml, printHtml, slides, i, err, orig, pre>>
  /\ UNCHANGED otherVars

Next == ReadManifest \/ LoopStep \/ BuildIndex \/ BuildPrint \/ RunAgain

\* ------------------------------------------------------------------------
\* The per-slide rewrites of main's loop, applied in any order
\* ------------------------------------------------------------------------

Range(f) == {f[x] : x \in DOMAIN f}

\* update_slide_file for position j, whatever positions went before
PermStep(j) ==
  /\ slides # <<>>
  /\ j \in (1..Len(slides)) \ Range(permOrder)
  /\ Exists(permDisk, TargetPath(slides, j))
  /\ \E order \in Orders(slides[j]) :
       LET r == UpdateAt(permDisk, slides, j, deck.math, order) IN
       /\ ~r.exit
       /\ permDisk' = WriteText(permDisk, TargetPath(slides, j), r.val)
  /\ permOrder' = Append(permOrder, j)
  /\ UNCHANGED <<call, ret>>
  /\ UNCHANGED buildVars

PermAny == \E j \in 1..Len(slides) : PermStep(j)

NextOrder == ReadManifest \/ LoopStep \/ BuildIndex \/ BuildPrint \/ PermAny

\* ------------------------------------------------------------------------
\* resolve_script_src called on its own
\* ------------------------------------------------------------------------

\* src = resolve_script_src(slide_path, spec.src)
ResolveCall ==
  /\ ret = None
  /\ ret' = Some(resolve_script_src(UnderRoot(call.slide), call.src))
  /\ UNCHANGED <<call, permDisk, permOrder>>
  /\ UNCHANGED buildVars

NextResolve == ResolveCall

\* ------------------------------------------------------------------------
\* Inputs
\* ------------------------------------------------------------------------

\* slide files named in deck.json
F1 == <<"slides", "/", "s1.html">>
F2 == <<"slides", "/", "s2.html">>
F3 == <<"slides", "/", "sub", "/", "s3.html">>
Gone == <<"slides", "/", "gone.html">>
DeepSlide == <<"a", "/", "b", "/", "slide.html">>

\* script specifiers
RootRelJs == <<"assets", "/", "x.js">>
BareJs == <<"x.js">>
DotJs == <<".", "/", "x.js">>
UrlJs == <<"https:", "/", "/", "cdn", "/", "x.js">>
AbsJs == <<"/", "abs", "/", "x.js">>
KatexSetupJs == <<"..", "/", "assets", "/", "math-katex-setup.js">>

\* one slide entry of deck.json
Item(file, title, math, scripts, script) ==
  [file |-> file, title |-> title, math |-> math,
   scripts |-> scripts, script |-> script]

\* deck.json
Deck(title, theme, engine, items) ==
  [title |-> title, theme |-> theme, math |-> [engine |-> engine],
   slides |-> items]

\* a well-formed slide: body region, footer region, closing body tag
CoreText ==
  <<MainOpen, Txt("body"), MainClose, NL,
    FooterOpen, Txt("old"), FooterClose, NL, BodyClose>>

\* <script src="src"></script>
ScriptElem(src) == <<ScriptOpen(src, <<>>), ScriptClose>>

\* a slide that an earlier build has given a block
BlockText ==
  <<MainOpen, Img(<<"img", "/", "p.png">>), MainClose, NL,
    FooterOpen, NL, FooterClose, NL,
    AUTO_SCRIPTS_BEGIN, WS("\n    "), AUTO_SCRIPTS_END, WS("\n  "),
    BodyClose>>

\* t with the fragment c inserted after its first p tokens
InsertAt(t, p, c) == Merge(SubSeq(t, 1, p) \o c \o SubSeq(t, p + 1, Len(t)))

\* where an author adds a fragment: before, in and after the footer,
\* before, in and after the block
InsertPoints == {4, 5, 8, 9, 12}

\* every text made from one of ts by inserting one fragment of cs
Inserted(ts, cs) ==
  UNION {{InsertAt(t, p, c) : p \in InsertPoints \cap 0..Len(t), c \in cs}
           : t \in ts}

RECURSIVE InsertedUpTo(_, _, _)
\* ... by inserting at most k fragments
InsertedUpTo(ts, cs, k) ==
  IF k = 0 THEN ts ELSE ts \cup InsertedUpTo(Inserted(ts, cs), cs, k - 1)

SeqsUpTo(S, n) == UNION {[1..m -> S] : m \in 0..n}

\* files before the first build
OldIndex == Some(<<Txt("old index")>>)
OldPrint == Some(<<Txt("old print")>>)

\* the values the variables of another specification keep
IdleBuild ==
  /\ deck = Deck(None, None, None, <<>>)
  /\ disk = <<>>
  /\ indexHtml = None
  /\ printHtml = None
  /\ pc = "idle"
  /\ slides = <<>>
  /\ i = 0
  /\ err = NoMsg
  /\ run = 0
  /\ orig = <<>>
  /\ pre = [disk |-> <<>>, index |-> None, print |-> None]
  /\ prevOut = None

IdlePerm == permDisk = <<>> /\ permOrder = <<>>

IdleCall == call = [slide |-> <<>>, src |-> <<>>] /\ ret = None

\* the state in which python build_deck.py is started on dk and d
StartBuild(dk, d) ==
  /\ deck = dk
  /\ disk = d
  /\ indexHtml = OldIndex
  /\ printHtml = OldPrint
  /\ pc = "start"
  /\ slides = <<>>
  /\ i = 0
  /\ err = NoMsg
  /\ run = 1
  /\ orig = d
  /\ pre = [disk |-> d, index |-> OldIndex, print |-> OldPrint]
  /\ prevOut = None

\* --- resolve_script_src ---

ResolveSlides == {<<"slide.html">>, F1, F3, DeepSlide,
                  <<"assets", "/", "s.html">>, <<"a", "/", "s.html">>}

ResolveSrcs ==
  {RootRelJs, BareJs, DotJs, UrlJs, AbsJs, <<>>, <<" ">>,
   <<" ", "x.js", " ">>, <<"..", "/", "x.js">>, <<"a", "/", "b", "/", "x.js">>,
   <<"a", "/", "x.js">>, <<"assets", "/", "..", "/", "x.js">>,
   <<"http:", "/", "/", "cdn", "/", "x.js">>, <<"http:", "x.js">>,
   <<"data:", "x">>, <<"#", "x">>, <<"mailto:", "x">>, <<"tel:", "x">>,
   <<"slides", "/", "x.js">>, <<" ", "assets", "/", "x.js">>}

InitResolve ==
  /\ call \in [slide : ResolveSlides, src : ResolveSrcs]
  /\ ret = None
  /\ IdleBuild
  /\ IdlePerm

SpecResolve == InitResolve /\ [][NextResolve]_vars

\* --- the full build ---

\* how many slides deck.json lists at most
MaxSlides == 3

SlideFiles == {F1, F2, Gone}

\* the slide files on disk: s1.html, s2.html, and no gone.html
DiskOf(t1, t2) ==
  (SlidePath(F1) :> Some(t1)) @@ (SlidePath(F2) :> Some(t2))
  @@ (SlidePath(Gone) :> None)

BuildChunks ==
  {<<AUTO_SCRIPTS_BEGIN>>, ScriptElem(RootRelJs), ScriptElem(DeckJsSrc),
   <<AUTO_SCRIPTS_BEGIN, NL>> \o ScriptElem(KatexSetupJs)
     \o <<NL, AUTO_SCRIPTS_END>>}

\* what s1.html holds: the well-formed slide, with or without one more
\* fragment before or after its footer
BuildTexts ==
  {CoreText, BlockText}
  \cup {InsertAt(CoreText, p, c) : p \in {4, 8}, c \in BuildChunks}

\* (math, scripts) of a slide entry
BuildOpts ==
  {[math |-> None, scripts |-> None],
   [math |-> Some(<<"mathjax">>), scripts |-> Some(<<StrEntry(RootRelJs)>>)]}

BuildItems ==
  {Item(f, "", o.math, o.scripts, None) : f \in SlideFiles, o \in BuildOpts}

BuildDecks ==
  {Deck(None, None, Some(<<"katex">>), items) :
     items \in SeqsUpTo(BuildItems, MaxSlides)}

InitBuild ==
  /\ \E dk \in BuildDecks, t1 \in BuildTexts :
       StartBuild(dk, DiskOf(t1, CoreText))
  /\ IdlePerm
  /\ IdleCall

Spec == InitBuild /\ [][Next]_vars

\* --- one slide, many texts ---

\* how many fragments an author has added to a well-formed slide
MaxInserts == 1

RewriteChunks ==
  {<<Txt("x")>>, ScriptElem(RootRelJs),
   <<ScriptOpen(<<"..", "/", "assets", "/", "x.js">>, <<"defer">>), WS(" "),
     ScriptClose>>,
   ScriptElem(DeckJsSrc), <<ScriptOpenApos(RootRelJs), ScriptClose>>,
   <<AUTO_SCRIPTS_BEGIN>>, <<FooterClose>>}

RewriteTexts == InsertedUpTo({CoreText, BlockText}, RewriteChunks, MaxInserts)

RewriteOpts ==
  {[math |-> None, scripts |-> Some(<<StrEntry(RootRelJs)>>)],
   [math |-> Some(<<"off">>),
    scripts |-> Some(<<DictEntry(BareJs, "module", TRUE, FALSE),
                       StrEntry(DotJs)>>)]}

RewriteDecks ==
  {Deck(Some("Talk"), Some("assets/dark.css"), Some(<<"katex">>),
        <<Item(F1, "One", o.math, o.scripts, None)>>) : o \in RewriteOpts}

InitRewrite ==
  /\ \E dk \in RewriteDecks, t1 \in RewriteTexts :
       StartBuild(dk, DiskOf(t1, CoreText))
  /\ IdlePerm
  /\ IdleCall

SpecRewrite == InitRewrite /\ [][Next]_vars

\* --- math engines ---

\* the file of position j
MathFile(j) == <<"slides", "/", "s" \o ToString(j) \o ".html">>

MathDisk ==
  [p \in {SlidePath(MathFile(j)) : j \in 1..MaxSlides} |-> Some(CoreText)]

\* slide-level "math" values of a deck of several slides
SlideMaths ==
  {None, Some(<<"off">>), Some(<<"MJ">>), Some(<<" ", "KaTeX", " ">>),
   Some(<<"bogus">>)}

\* deck-level "engine" values
DeckEngines ==
  {None, Some(<<"katex">>), Some(<<"mj">>), Some(<<"bogus">>),
   Some(<<" ", "TeX">>), Some(<<>>)}

\* every spelling, for a deck of one slide
AllMaths ==
  SlideMaths \cup
  {Some(<<>>), Some(<<" ">>), Some(<<"none">>), Some(<<"false">>),
   Some(<<"0">>), Some(<<"OFF">>), Some(<<"katex">>), Some(<<"tex">>),
   Some(<<"mathjax">>), Some(<<"MathJax">>), Some(<<"mj">>),
   Some(<<"mj", "mj">>), Some(<<"kate", "x">>)}

MathItems(n, maths) ==
  {[j \in 1..n |-> Item(MathFile(j), "", ms[j],
                        IF j = 1 THEN Some(<<StrEntry(BareJs)>>) ELSE None,
                        None)] : ms \in [1..n -> maths]}

MathDecks ==
  {Deck(None, None, e, items) :
     e \in DeckEngines,
     items \in MathItems(1, AllMaths)
               \cup UNION {MathItems(n, SlideMaths) : n \in 2..MaxSlides}}

InitMath ==
  /\ \E dk \in MathDecks : StartBuild(dk, MathDisk)
  /\ IdlePerm
  /\ IdleCall

SpecMath == InitMath /\ [][Next]_vars

\* --- rewriting in any order ---

\* the entry of a file: s1.html declares a script, s2.html overrides math
OrderItem(f) ==
  IF f = F1 THEN Item(f, "", None, None, Some(RootRelJs))
  ELSE Item(f, "", Some(<<"mj">>), None, None)

OrderDecks ==
  {Deck(None, None, Some(<<"katex">>), [j \in 1..Len(fs) |-> OrderItem(fs[j])])
     : fs \in SeqsUpTo({F1, F2}, MaxSlides)}

OrderTexts == {CoreText, InsertAt(BlockText, 8, ScriptElem(RootRelJs))}

InitOrder ==
  /\ \E dk \in OrderDecks, t1 \in OrderTexts :
       /\ StartBuild(dk, DiskOf(t1, CoreText))
       /\ permDisk = DiskOf(t1, CoreText)
  /\ permOrder = <<>>
  /\ IdleCall

SpecOrder == InitOrder /\ [][NextOrder]_vars

\* ------------------------------------------------------------------------
\* What the properties speak of
\* ------------------------------------------------------------------------

\* the file an href written in the slide at slide_path points to
HrefTarget(slide_path, href) ==
  Norm(SubSeq(slide_path, 1, Len(slide_path) - 1) \o Split(href))

\* the text of the slide file of position j
FileOf(d, j) == d[SlidePath(slides[j].file)][1]

\* the <script> tags between the markers of the file's AUTO-SCRIPTS block
BlockScripts(html) ==
  LET span == AutoScriptsSpan(html)
  IN SelectSeq(SubSeq(html, span[1] + 1, span[2] - 1),
               LAMBDA t : t.k = "script")

\* the alias families of the math engines and the values that disable math
FamilyA == {<<"katex">>, <<"tex">>}
FamilyB == {<<"mathjax">>, <<"mj">>}
Disable == {<<"none">>, <<"off">>, <<"false">>, <<"0">>}

\* a configured value without surrounding blanks, in lower case
Canon(opt) == Lower(Strip(OrEmpty(opt)))

\* the engine a value of a family stands for, "" for any other value
EngineOf(v) ==
  IF v \in FamilyA THEN <<"katex">>
  ELSE IF v \in FamilyB THEN <<"mathjax">>
  ELSE <<>>

\* the setup file that loads an engine
LoaderFile(e) ==
  IF e = <<"katex">> THEN "math-katex-setup.js" ELSE "math-mathjax-setup.js"

\* the engines whose loader a page references in a <script> tag
PageEngines(html) ==
  {e \in {<<"katex">>, <<"mathjax">>} :
     \E q \in 1..Len(html) :
        /\ html[q].k = "script"
        /\ \E p \in 1..Len(html[q].src) : html[q].src[p] = LoaderFile(e)}

\* a value that names no engine and does not disable math
UnknownDeckEngine == Canon(deck.math.engine) \notin FamilyA \cup FamilyB \cup {<<>>}
UnknownOverride(j) ==
  Canon(slides[j].math) \notin FamilyA \cup FamilyB \cup Disable \cup {<<>>}

\* ------------------------------------------------------------------------
\* C4: resolve_script_src for a slide two directories below the root
\* ------------------------------------------------------------------------

ResolvedDeep == ret # None /\ call.slide = DeepSlide

\* C4, as stated: for the slide a/b/slide.html, assets/x.js resolves to
\* ../assets/x.js, x.js resolves to ./x.js, and an external URL and a
\* root-absolute path are returned unchanged.
C4_ResolveOneLevelUp ==
  ResolvedDeep =>
    /\ call.src = RootRelJs => ret[1] = <<"..", "/", "assets", "/", "x.js">>
    /\ call.src = BareJs => ret[1] = <<".", "/", "x.js">>
    /\ call.src \in {UrlJs, AbsJs} => ret[1] = call.src

\* C4, amended: for the slide a/b/slide.html, assets/x.js resolves to
\* ../../assets/x.js (one ".." per directory between the slide and the
\* root), x.js resolves to ./x.js, and an external URL and a root-absolute
\* path are returned unchanged.
C4_ResolveTwoLevelsUp ==
  ResolvedDeep =>
    /\ call.src = RootRelJs =>
         ret[1] = <<"..", "/", "..", "/", "assets", "/", "x.js">>
    /\ call.src = BareJs => ret[1] = <<".", "/", "x.js">>
    /\ call.src \in {UrlJs, AbsJs} => ret[1] = call.src

\* the call of C4 on assets/x.js has returned
C4_Witness == ResolvedDeep /\ call.src = RootRelJs

\* ------------------------------------------------------------------------
\* C6: the math engine of one slide
\* ------------------------------------------------------------------------

\* the engine C6 names for a slide: its own value when it has one,
\* otherwise the deck default
SlideEngine(s) ==
  IF Canon(s.math) \in Disable THEN <<>>
  ELSE IF Canon(s.math) # <<>> THEN EngineOf(Canon(s.math))
  ELSE EngineOf(Canon(deck.math.engine))

\* position i - 1 is the slide the loop has rewritten last
LastWritten == slides # <<>> /\ i > 1

\* C6: for the slide rewritten last, choose_slide_math_engine returns the
\* slide's own engine when it has a value (nothing for none/off/false/0,
\* whatever the deck default), otherwise the deck default; and the first
\* tag of the slide's AUTO-SCRIPTS block loads that engine, or the block
\* holds no math loader when there is no engine.
C6_SlideMathPrecedence ==
  LastWritten =>
    LET s == slides[i - 1]
        e == SlideEngine(s)
        tags == BlockScripts(FileOf(disk, i - 1))
    IN /\ choose_slide_math_engine(deck.math, s.math) = Returns(e)
       /\ IF e = <<>>
          THEN \A q \in 1..Len(tags) : ~IsMathLoaderSrc(tags[q].src)
          ELSE /\ tags # <<>>
               /\ HrefTarget(UnderRoot(s.file), tags[1].src)
                  = ROOT \o << <<"assets">>, <<LoaderFile(e)>> >>
               /\ \A q \in 2..Len(tags) : ~IsMathLoaderSrc(tags[q].src)

\* a slide that switches math off under a deck that asks for an engine
C6_Witness ==
  /\ LastWritten
  /\ Canon(slides[i - 1].math) \in Disable
  /\ EngineOf(Canon(deck.math.engine)) # <<>>
  /\ BlockScripts(FileOf(disk, i - 1)) # <<>>

\* ------------------------------------------------------------------------
\* C7: the math engine of the print page
\* ------------------------------------------------------------------------

\* the engine C7 names for the print page
PrintEngine ==
  IF \/ \E j \in 1..Len(slides) : Canon(slides[j].math) \in FamilyB
     \/ Canon(deck.math.engine) \in FamilyB
  THEN <<"mathjax">>
  ELSE IF Canon(deck.math.engine) \in FamilyA THEN <<"katex">>
  ELSE <<>>

\* C7: after a build, choose_print_math_engine has returned mathjax if a
\* slide asks for it or the deck default is mathjax, katex if the deck
\* default is katex, nothing otherwise; print.html loads exactly that
\* engine; and if a slide's own page loads mathjax, print.html does too.
C7_PrintMathPrecedence ==
  pc = "done" =>
    /\ choose_print_math_engine(deck.math, slides) = PrintEngine
    /\ PageEngines(printHtml[1])
       = (IF PrintEngine = <<>> THEN {} ELSE {PrintEngine})
    /\ \A j \in 1..Len(slides) :
          <<"mathjax">> \in PageEngines(FileOf(disk, j))
            => <<"mathjax">> \in PageEngines(printHtml[1])

\* the second of three slides asks for mathjax under a katex deck
C7_Witness ==
  /\ pc = "done"
  /\ Len(slides) = 3
  /\ Canon(slides[2].math) \in FamilyB
  /\ Canon(deck.math.engine) \in FamilyA
  /\ <<"mathjax">> \in PageEngines(FileOf(disk, 2))

\* ------------------------------------------------------------------------
\* C8: values that name no engine
\* ------------------------------------------------------------------------

\* C8, as stated: a build whose deck default or whose slide override names
\* no engine (and, for an override, does not disable math) does not
\* complete; it stops with an error that names the value.
C8_UnknownValueAborts ==
  /\ pc = "done" =>
       /\ ~UnknownDeckEngine
       /\ \A j \in 1..Len(slides) : ~UnknownOverride(j)
  /\ (pc = "failed" /\ err.text = "Unknown slide math engine") =>
       \E j \in 1..Len(slides) :
          UnknownOverride(j) /\ err.arg = slides[j].math[1]

\* ------------------------------------------------------------------------
\* The footers of a file, read the way a browser finds them
\* ------------------------------------------------------------------------

RECURSIVE NextFooterClose(_, _)
\* the first position from p on that holds </footer>, 0 when none
NextFooterClose(html, p) ==
  IF p > Len(html) THEN 0
  ELSE IF html[p].k = "/footer" THEN p
  ELSE NextFooterClose(html, p + 1)

RECURSIVE FooterSpans(_, _)
\* <<open, close>> of every data-auto-nav footer from position j on
FooterSpans(html, j) ==
  IF j > Len(html) THEN <<>>
  ELSE LET c == NextFooterClose(html, j + 1) IN
       IF IsFooterOpen(html[j]) /\ c # 0
       THEN << <<j, c>> >> \o FooterSpans(html, c + 1)
       ELSE FooterSpans(html, j + 1)

\* what stands between the tags of a footer, whitespace aside
NavItems(html, span) ==
  SelectSeq(SubSeq(html, span[1] + 1, span[2] - 1), LAMBDA t : ~IsWs(t))

\* the footer content C5 describes for position j of the slide list
FooterReads(items, j) ==
  LET n == Len(slides)
      path == UnderRoot(slides[j].file)
  IN /\ Len(items) = 4
     /\ items[1].k = "a"
     /\ IF j = 1
        THEN /\ items[1].a = <<"nav-prev", "aria-disabled">>
             /\ items[1].src = <<"#">>
        ELSE /\ items[1].a = <<"nav-prev">>
             /\ HrefTarget(path, items[1].src) = SlidePath(slides[j - 1].file)
     /\ items[2].k = "a"
     /\ items[2].a = <<"nav-index">>
     /\ HrefTarget(path, items[2].src) = ROOT \o << <<"index.html">> >>
     /\ items[3].k = "a"
     /\ IF j = n
        THEN /\ items[3].a = <<"nav-next", "aria-disabled">>
             /\ items[3].src = <<"#">>
        ELSE /\ items[3].a = <<"nav-next">>
             /\ HrefTarget(path, items[3].src) = SlidePath(slides[j + 1].file)
     /\ items[4].k = "span"
     /\ items[4].n = <<j, n>>

\* every footer of the file of position j reads as C5 describes for j
FootersRead(j) ==
  LET html == FileOf(disk, j)
      spans == FooterSpans(html, 1)
  IN \A q \in 1..Len(spans) : FooterReads(NavItems(html, spans[q]), j)

\* the positions in ps that list the same file as position j
SameFile(j, ps) ==
  {l \in ps : SlidePath(slides[l].file) = SlidePath(slides[j].file)}

\* no AUTO-SCRIPTS:BEGIN marker stands before the end of a footer
FooterBeforeMarkers(html) ==
  \A b, c \in 1..Len(html) :
     html[b] = AUTO_SCRIPTS_BEGIN /\ html[c] = FooterClose => c < b

\* ------------------------------------------------------------------------
\* C1: building twice
\* ------------------------------------------------------------------------

\* C1, as stated: when a build has succeeded and main() is run again on the
\* unchanged deck.json, the second run leaves every slide file, index.html
\* and print.html exactly as the first run wrote them.
C1_SecondBuildChangesNothing ==
  (run >= 2 /\ pc \in {"done", "failed"}) => Files = prevOut[1]

\* ------------------------------------------------------------------------
\* C2: a slide file that does not exist
\* ------------------------------------------------------------------------

\* main() has stopped at a position whose file does not exist
MissingAbort == pc = "failed" /\ err.text = "Missing slide file"

\* C2, as stated: when the build aborts on a missing slide file, every
\* slide file, index.html and print.html still has its pre-build content.
C2_NothingMutated == MissingAbort => Files = pre

\* C2, amended: when the build aborts on the missing file of position k,
\* index.html, print.html and every slide file that is not listed before
\* position k still have their pre-build content, and every file listed
\* before position k has been rewritten: it holds an AUTO-SCRIPTS block and
\* its footers read as for one of those positions.
C2_OnlyEarlierSlidesMutated ==
  MissingAbort =>
    /\ ~Exists(disk, SlidePath(slides[i].file))
    /\ indexHtml = pre.index
    /\ printHtml = pre.print
    /\ \A p \in DOMAIN disk :
          (\A l \in 1..(i - 1) : SlidePath(slides[l].file) # p)
            => disk[p] = pre.disk[p]
    /\ \A l \in 1..(i - 1) :
          LET html == FileOf(disk, l)
              spans == FooterSpans(html, 1)
          IN /\ AutoScriptsSpan(html) # <<0, 0>>
             /\ \A q \in 1..Len(spans) :
                   \E m \in SameFile(l, 1..(i - 1)) :
                      FooterReads(NavItems(html, spans[q]), m)

\* the third position is missing and the build has changed a slide file
C2_Witness == MissingAbort /\ i = 3 /\ disk # pre.disk

\* ------------------------------------------------------------------------
\* C5: the footer of every position
\* ------------------------------------------------------------------------

BothRewritten ==
  /\ pc \in {"index", "print", "done"}
  /\ Range(permOrder) = 1..Len(slides)

\* no file is listed at two positions
DistinctFiles == \A j \in 1..Len(slides) : SameFile(j, 1..Len(slides)) = {j}

\* C10, as stated: for every manifest read_manifest accepts, the rewrites of
\* all positions applied in any order leave every slide file with the
\* content that manifest order gives it.
C10_AnyOrderSameFiles == BothRewritten => permDisk = disk

\* C10, amended: for a manifest that lists no file at two positions, the
\* rewrites of all positions applied in any order leave every slide file
\* with the content that manifest order gives it.
C10_AnyOrderDistinctFiles == (BothRewritten /\ DistinctFiles) => permDisk = disk

\* two different files, the second rewritten first
C10_Witness ==
  /\ BothRewritten
  /\ DistinctFiles
  /\ Len(slides) >= 2
  /\ permOrder[1] # 1
  /\ permDisk # orig

\* ------------------------------------------------------------------------
\* C3: one tag for a declared script
\* ------------------------------------------------------------------------

\* the positions of the <script> tags of html that reference src, as it is
\* declared or as it is resolved for the slide
TagsFor(html, slide_path, src) ==
  {q \in 1..Len(html) :
     /\ html[q].k = "script"
     /\ html[q].src # <<>>
     /\ html[q].src \in {Strip(src), resolve_script_src(slide_path, src)}}

\* the scripts of slide j that its entry declares once
DeclaredOnce(j) ==
  LET sc == slides[j].scripts
      path == UnderRoot(slides[j].file)
  IN {l \in 1..Len(sc) :
        /\ Strip(sc[l].src) # <<>>
        /\ \A m \in 1..Len(sc) :
              resolve_script_src(path, sc[m].src)
              = resolve_script_src(path, sc[l].src) => m = l}

\* C3, as stated: after two builds, the file of a slide holds exactly one
\* <script> tag for each script its entry declares once, and that tag is
\* inside the AUTO-SCRIPTS block, also when the file came with an author's
\* tag for the script outside the block.
C3_OneTagInBlock ==
  (run = 2 /\ pc = "done") =>
    \A j \in 1..Len(slides) :
       \A l \in DeclaredOnce(j) :
          LET html == FileOf(disk, j)
              span == AutoScriptsSpan(html)
              tags == TagsFor(html, UnderRoot(slides[j].file),
                              slides[j].scripts[l].src)
          IN /\ Cardinality(tags) = 1
             /\ \A q \in tags : span[1] < q /\ q < span[2]

\* ------------------------------------------------------------------------
\* C9: what a rewrite leaves alone
\* ------------------------------------------------------------------------

RECURSIVE BlankFooters(_, _)
\* html from position j on, every data-auto-nav footer emptied
BlankFooters(html, j) ==
  IF j > Len(html) THEN <<>>
  ELSE LET c == NextFooterClose(html, j + 1) IN
       IF IsFooterOpen(html[j]) /\ c # 0
       THEN <<html[j], html[c]>> \o BlankFooters(html, c + 1)
       ELSE <<html[j]>> \o BlankFooters(html, j + 1)

\* html without the tokens from position b to position e
Without(html, b, e) ==
  IF b = 0 THEN html
  ELSE SubSeq(html, 1, b - 1) \o SubSeq(html, e + 1, Len(html))

\* the first position at which block stands in html, 0 when it does not
FirstAt(html, block) ==
  LET ps == {p \in 1..(Len(html) - Len(block) + 1) :
               SubSeq(html, p, p + Len(block) - 1) = block}
  IN IF ps = {} THEN 0 ELSE CHOOSE p \in ps : \A q \in ps : p <= q

\* a file as read, outside its machine-owned regions: the footers emptied
\* and the AUTO-SCRIPTS block taken out
Outside(html) ==
  LET h == BlankFooters(html, 1)
      span == AutoScriptsSpan(h)
  IN Without(h, span[1], span[2])

\* a file as written, outside its machine-owned regions: the block that
\* was written taken out and the footers emptied
OutsideWritten(html, block) ==
  LET p == FirstAt(html, block)
  IN BlankFooters(Without(html, p, p + Len(block) - 1), 1)

NoWs(html) == SelectSeq(html, LAMBDA t : ~IsWs(t))

\* the text left by the three removal passes of update_slide_file
Removals(html, j, order) ==
  RemoveDeclared(RemoveMathLoaders(RemoveDeckJs(html)),
                 UnderRoot(slides[j].file), slides[j].scripts, 1, order)

\* the block update_slide_file writes for position j
BlockOf(j) ==
  build_auto_scripts_block(UnderRoot(slides[j].file), deck.math,
                           slides[j]).val

\* the loop rewrites the file of position i
RewriteStep == pc = "loop" /\ i' = i + 1

====
